---- MODULE Spec2Model ----
(***************************************************************************)
(* Model of the LSB steganography codec of stegnoapp: ByteMask (utils.rs), *)
(* Encoder (encoder.rs), Decoder (decoder.rs) and the error conversions    *)
(* (errors.rs).  Bytes are naturals 0..255; u8 arithmetic is taken modulo  *)
(* 256.  A file is a record of its state and its bytes.                    *)
(***************************************************************************)
EXTENDS Integers, Sequences, FiniteSets, TLC

VARIABLES
    pc,         \* position of the caller: which call comes next
    op,         \* the pass under way: "none", "encode", "decode" (of an image
                \* from elsewhere) or "roundtrip" (decode of the encoder's output)
    bitsIn,     \* the argument of ByteMask::new
    mask,       \* the ByteMask value (bits, mask, chunks, padded, byte, step), or NoMask
    emitted,    \* items the ByteMask iterator has yielded since the last set_byte
    exhausted,  \* TRUE once the iterator has returned None
    joined,     \* result of the last join_chunks call, or NoByte
    image,      \* the in-memory image buffer of the Encoder / Decoder (flat bytes)
    cover,      \* the bytes of the image as it was opened
    secret,     \* the bytes of the secret file the Encoder holds
    zeroes,     \* Encoder.zeroes
    stegoFile,  \* the file Encoder::save writes: [state, bytes]
    outFile,    \* the file Decoder::save writes: [state, bytes]
    chunkBuf,   \* Decoder::save's chunk buffer when the pass ended
    result,     \* what the last call returned: "none", "Ok", an Error, or "panic"
    failedAt    \* the step of the call at which the failure arose, or "none"

vars == <<pc, op, bitsIn, mask, emitted, exhausted, joined, image, cover, secret, zeroes,
          stegoFile, outFile, chunkBuf, result, failedAt>>

----------------------------------------------------------------------------
(* Bounds of the model. *)

\* ByteMask::new is tried with every bits value in 0..MaxBitsInput.
MaxBitsInput == 9
\* Cover images have 0..MaxPixels RGB pixels (three bytes each).
MaxPixels == 6
\* Secrets have 0..MaxSecretLen bytes.
MaxSecretLen == 2
\* The shifts of join_chunks are looked at for inputs of 1..MaxJoinChunks chunks.
MaxJoinChunks == 10
\* Images decoded without having been encoded have 1..MaxDecodePixels pixels
\* of freely chosen bytes.
MaxDecodePixels == 2

\* Bytes a secret is made of: zero, a byte whose leading chunks are zero,
\* a byte with mixed bits, and all ones.
SecretBytes == {0, 1, 65, 255}

\* Pixels a cover image is made of (one pixel repeated).
CoverPixels == {<<0, 0, 0>>, <<240, 128, 0>>, <<255, 165, 60>>}

\* Bytes a freely chosen image is made of: zero, and a byte (1011 0101) whose
\* low bits are nonzero at every width.
DecodeBytes == {0, 181}

Byte == 0..255

----------------------------------------------------------------------------
(* u8 arithmetic. *)

RECURSIVE Pow2(_)
Pow2(n) == IF n = 0 THEN 1 ELSE 2 * Pow2(n - 1)

\* a & b on 8-bit values, bit by bit
BitAnd(a, b) ==
      (a % 2) * (b % 2)
    + ((a \div 2) % 2) * ((b \div 2) % 2) * 2
    + ((a \div 4) % 2) * ((b \div 4) % 2) * 4
    + ((a \div 8) % 2) * ((b \div 8) % 2) * 8
    + ((a \div 16) % 2) * ((b \div 16) % 2) * 16
    + ((a \div 32) % 2) * ((b \div 32) % 2) * 32
    + ((a \div 64) % 2) * ((b \div 64) % 2) * 64
    + ((a \div 128) % 2) * ((b \div 128) % 2) * 128

\* a | b on 8-bit values: every bit set in a or in b, counted once
BitOr(a, b) == a + b - BitAnd(a, b)

\* !a on u8
BitNot(a) == 255 - a

\* a >> s on u8.  Every shift amount the code uses is below 8 (C13); a
\* larger one is taken modulo 8, as a build without overflow checks does.
Shr(a, s) == a \div Pow2(s % 8)

\* a << s on u8: the bits shifted past bit 7 are lost; s as for Shr
Shl(a, s) == (a * Pow2(s % 8)) % 256

\* u8 subtraction and multiplication, wrapping
Sub8(a, b) == (a - b) % 256

Mul8(a, b) == (a * b) % 256

\* u8::saturating_sub
SaturatingSub(a, b) == IF a < b THEN 0 ELSE a - b

\* f32::ceil(8f32 / bits as f32) as u8, for bits >= 1
CeilDiv8(bits) == (8 + bits - 1) \div bits

----------------------------------------------------------------------------
(* errors.rs *)

SecretReadError == "SecretReadError"

SecretTooLarge == "SecretTooLarge"

InvalidNumberOfBits == "InvalidNumberOfBits"

ImageReadWriteError == "ImageReadWriteError"

\* impl From<std::io::Error> for Error
FromIoError == SecretReadError

\* impl From<image::ImageError> for Error
FromImageError == ImageReadWriteError

----------------------------------------------------------------------------
(* utils.rs: ByteMask *)

NoMask == [bits |-> 0, mask |-> 0, chunks |-> 0, padded |-> FALSE,
           byte |-> 0, step |-> 0]

NoByte == 0 - 1

None == [some |-> FALSE, val |-> 0]

Some(v) == [some |-> TRUE, val |-> v]

\* the test of ByteMask::new that rejects a bit-width
InvalidBits_MutNine(bits) == (bits = 0) \/ (bits > 9)

InvalidBits(bits) == (bits = 0) \/ (bits > 8)

\* ByteMask::new, the Ok branch
ByteMaskNew(bits) ==
    LET m == (Pow2(bits) - 1) % 256
        c == CeilDiv8(bits)
    IN  [bits |-> bits, mask |-> m, chunks |-> c,
         padded |-> 8 < Mul8(c, bits), byte |-> 0, step |-> 0]

\* ByteMask::set_byte
SetByte(bm, b) == [bm EXCEPT !.byte = b, !.step = 0]

\* shift of the last chunk of a padded width: bits * step - 8
PaddedShift(bm, step) == Sub8(Mul8(bm.bits, step), 8)

\* shift of every other chunk: 8 - bits * step
PlainShift(bm, step) == Sub8(8, Mul8(bm.bits, step))

\* the item of Iterator::next at the (already incremented) step
ChunkAt_MutNoPad(bm, step) ==
    BitAnd(Shr(bm.byte, PlainShift(bm, step) % 8), bm.mask)

ChunkAt(bm, step) ==
    IF bm.padded /\ (step = bm.chunks)
    THEN BitAnd(bm.byte, Shr(bm.mask, PaddedShift(bm, step)))
    ELSE BitAnd(Shr(bm.byte, PlainShift(bm, step)), bm.mask)

\* Iterator::next: the item and the iterator afterwards
IterNext_MutOffByOne(bm) ==
    IF bm.step > bm.chunks
    THEN [item |-> None, self |-> bm]
    ELSE [item |-> Some(ChunkAt(bm, bm.step + 1)),
          self |-> [bm EXCEPT !.step = bm.step + 1]]

IterNext(bm) ==
    IF bm.step >= bm.chunks
    THEN [item |-> None, self |-> bm]
    ELSE [item |-> Some(ChunkAt(bm, bm.step + 1)),
          self |-> [bm EXCEPT !.step = bm.step + 1]]

\* every item the iterator yields until None (what flat_map consumes)
RECURSIVE Collect(_)
Collect(bm) ==
    LET r == IterNext(bm)
    IN  IF r.item.some THEN <<r.item.val>> \o Collect(r.self) ELSE <<>>

\* one round of the loop of join_chunks
JoinShift_MutWrap(shift, bits) == IF shift < bits THEN 7 ELSE shift - bits

JoinShift(shift, bits) == SaturatingSub(shift, bits)

\* ByteMask::join_chunks: the loop from position k with the running byte and shift
RECURSIVE JoinFrom(_, _, _, _, _)
JoinFrom(bm, chunks, k, byte, shift) ==
    IF k > Len(chunks) THEN byte
    ELSE LET s == JoinShift(shift, bm.bits)
         IN  JoinFrom(bm, chunks, k + 1, BitOr(byte, Shl(chunks[k], s)), s)

JoinChunks(bm, chunks) == JoinFrom(bm, chunks, 1, 0, 8)

\* the shift join_chunks uses for its k-th chunk (k >= 1); 8 before the first
RECURSIVE JoinShiftAt(_, _)
JoinShiftAt(bm, k) ==
    IF k = 0 THEN 8 ELSE JoinShift(JoinShiftAt(bm, k - 1), bm.bits)

----------------------------------------------------------------------------
(* Files and inputs. *)

\* a file that does not exist
Absent == [state |-> "absent", bytes |-> <<>>]

\* a file written in full
Written(bytes) == [state |-> "written", bytes |-> bytes]

\* a file that was created by a write that then failed: it holds the part
\* of the bytes that was written before the failure
PartFile(bytes) == [state |-> "partial", bytes |-> bytes]

Zeros(n) == [i \in 1..n |-> 0]

\* the flat RGB buffer of p pixels px (image::open(..).to_rgb8())
Repeat(px, p) == [i \in 1..(3 * p) |-> px[((i - 1) % 3) + 1]]

Covers == {Repeat(px, p) : px \in CoverPixels, p \in 0..MaxPixels}

\* images that no encoder wrote: every arrangement of DecodeBytes
PatternImages == UNION {[1..(3 * p) -> DecodeBytes] : p \in 1..MaxDecodePixels}

\* the images Decoder::new is given
Images == Covers \cup PatternImages

Secrets == UNION {[1..n -> SecretBytes] : n \in 0..MaxSecretLen}

----------------------------------------------------------------------------
(* encoder.rs *)

\* secret_size of Encoder::new
SecretSize(len, bm) == len * bm.chunks

\* the capacity test of Encoder::new
TooLarge_MutOffByOne(imageSize, secretSize) == imageSize <= secretSize

TooLarge_MutNever(imageSize, secretSize) == FALSE

TooLarge(imageSize, secretSize) == imageSize < secretSize

\* secret.bytes().flat_map(|b| byte_iter.set_byte(b.unwrap())) from byte k on
RECURSIVE SecretChunks(_, _, _)
SecretChunks(bm, s, k) ==
    IF k > Len(s) THEN <<>>
    ELSE Collect(SetByte(bm, s[k])) \o SecretChunks(bm, s, k + 1)

\* (0..self.zeroes).map(|_| 0).chain(secret_bytes)
ChunkStream_MutSecretFirst(bm, s, z) == SecretChunks(bm, s, 1) \o Zeros(z)

ChunkStream(bm, s, z) == Zeros(z) \o SecretChunks(bm, s, 1)

\* *p = (*p & mask) | b, with mask = !byte_iter.mask
Embed_MutMask(bm, p, b) == BitOr(BitAnd(p, bm.mask), b)

Embed(bm, p, b) == BitOr(BitAnd(p, BitNot(bm.mask)), b)

\* the loop of Encoder::save over image.iter_mut().zip(stream)
EmbedAll(bm, img, stream) ==
    [i \in 1..Len(img) |->
        IF i <= Len(stream) THEN Embed(bm, img[i], stream[i]) ELSE img[i]]

\* the image when the read of secret byte k (0-based) fails: zip has taken
\* the zeroes and every chunk of the k bytes read before it, and flat_map
\* asks for the next byte only once those chunks are used up
EmbedUntilRead(bm, img, s, z, k) ==
    EmbedAll(bm, img, ChunkStream(bm, SubSeq(s, 1, k), z))

----------------------------------------------------------------------------
(* decoder.rs *)

\* the state of the loop of Decoder::save before the first image byte
DecodeStart_MutStarted == [chunks |-> <<>>, start |-> TRUE, out |-> <<>>]

DecodeStart == [chunks |-> <<>>, start |-> FALSE, out |-> <<>>]

\* zero chunks pushed when the first nonzero chunk is found at index i
AlignPad_MutStartAnchored(bm, len, i) == i % bm.chunks

AlignPad_MutAlways(bm, len, i) == bm.chunks - ((len - i) % bm.chunks)

AlignPad_MutNone(bm, len, i) == 0

AlignPad(bm, len, i) ==
    LET n == bm.chunks
        offset == (len - i) % n
    IN  IF offset # 0 THEN n - offset ELSE 0

\* the capacity of BufWriter::new (std's DEFAULT_BUF_SIZE)
BufCapacity == 8192

\* bytes the BufWriter has passed on to the file once w one-byte write_all
\* calls have succeeded: a write that finds the buffer full flushes it whole
Flushed(w) == IF w = 0 THEN 0 ELSE BufCapacity * ((w - 1) \div BufCapacity)

\* the w-th write_all (1-based) finds the buffer full and writes it to the
\* file before it takes its byte: the one place where write_all can fail
WriteFlushes(w) == (w > 1) /\ ((w - 1) % BufCapacity = 0)

\* one round of the loop of Decoder::save, up to the test of the buffer's
\* length: image byte at 0-based index i.
DecodePush(bm, st, len, i, byte) ==
    LET b == BitAnd(byte, bm.mask)
        found == (~st.start) /\ (b > 0)
        c1 == IF found THEN st.chunks \o Zeros(AlignPad(bm, len, i)) ELSE st.chunks
        started == st.start \/ found
        c2 == IF started THEN Append(c1, b) ELSE c1
    IN  [chunks |-> c2, start |-> started, out |-> st.out]

\* one round of the loop of Decoder::save with write_all succeeding.
\* The buffer is made with Vec::with_capacity(chunks) and never holds more
\* than chunks entries, so chunks.capacity() stays at chunks.
DecodeStep(bm, st, len, i, byte) ==
    LET p == DecodePush(bm, st, len, i, byte)
    IN  IF Len(p.chunks) = bm.chunks
        THEN [chunks |-> <<>>, start |-> p.start,
              out |-> Append(st.out, JoinChunks(bm, p.chunks))]
        ELSE p

\* the loop of Decoder::save from 0-based index i on
RECURSIVE DecodeFrom(_, _, _, _)
DecodeFrom(bm, img, i, st) ==
    IF i >= Len(img) THEN st
    ELSE LET nx == DecodeStep(bm, st, Len(img), i, img[i + 1])
         \* (the test holds of every state of the loop: it has this round's
         \* state computed before the next round begins, as the loop does)
         IN  IF Len(nx.out) >= 0 THEN DecodeFrom(bm, img, i + 1, nx) ELSE st

DecodeAll(bm, img) == DecodeFrom(bm, img, 0, DecodeStart)

\* the loop of Decoder::save from 0-based index i on, left by the `?` of the
\* w-th write_all: the chunk buffer is full and not cleared, and out holds
\* the w - 1 bytes the BufWriter took before
RECURSIVE DecodeUntilWrite(_, _, _, _, _)
DecodeUntilWrite(bm, img, i, st, w) ==
    IF i >= Len(img) THEN st
    ELSE LET p == DecodePush(bm, st, Len(img), i, img[i + 1])
         IN  IF (Len(p.chunks) = bm.chunks) /\ (Len(st.out) = w - 1)
             THEN p
             ELSE DecodeUntilWrite(bm, img, i + 1,
                                   DecodeStep(bm, st, Len(img), i, img[i + 1]), w)

----------------------------------------------------------------------------
(* The calls.  main.rs makes them in the order ByteMask::new, then          *)
(* Encoder::new and Encoder::save (encode), or Decoder::new and             *)
(* Decoder::save (decode); a decode may follow an encode and read its       *)
(* output.  The iterator calls (set_byte, next, join_chunks) are also       *)
(* driven one by one on a ByteMask of their own.                            *)

Init ==
    /\ pc = "start"
    /\ op = "none"
    /\ bitsIn = 0
    /\ mask = NoMask
    /\ emitted = <<>>
    /\ exhausted = FALSE
    /\ joined = NoByte
    /\ image = <<>>
    /\ cover = <<>>
    /\ secret = <<>>
    /\ zeroes = 0
    /\ stegoFile = Absent
    /\ outFile = Absent
    /\ chunkBuf = <<>>
    /\ result = "none"
    /\ failedAt = "none"

\* ByteMask::new(bits)
NewMask(bits) ==
    /\ pc = "start"
    /\ IF InvalidBits(bits)
       THEN /\ result' = InvalidNumberOfBits
            /\ failedAt' = "ByteMask::new"
            /\ pc' = "done"
            /\ mask' = mask
       ELSE /\ result' = "Ok"
            /\ failedAt' = "none"
            /\ pc' = "masked"
            /\ mask' = ByteMaskNew(bits)
    /\ bitsIn' = bits
    /\ UNCHANGED <<op, emitted, exhausted, joined, image, cover, secret, zeroes,
                   stegoFile, outFile, chunkBuf>>

\* ByteMask::set_byte(b) on a fresh ByteMask (pc = "masked"), or on one whose
\* iteration is under way, which re-arms it
SetByteCall(b) ==
    /\ pc \in {"masked", "iter"}
    /\ (pc = "iter") => (b \in SecretBytes)
    /\ mask' = SetByte(mask, b)
    /\ emitted' = <<>>
    /\ exhausted' = FALSE
    /\ pc' = "iter"
    /\ UNCHANGED <<op, bitsIn, joined, image, cover, secret, zeroes, stegoFile, outFile,
                   chunkBuf, result, failedAt>>

\* Iterator::next on the ByteMask
NextCall ==
    /\ pc = "iter"
    /\ ~exhausted
    /\ LET r == IterNext(mask)
       IN  /\ mask' = r.self
           /\ emitted' = IF r.item.some THEN Append(emitted, r.item.val) ELSE emitted
           /\ exhausted' = ~r.item.some
    /\ UNCHANGED <<pc, op, bitsIn, joined, image, cover, secret, zeroes, stegoFile, outFile,
                   chunkBuf, result, failedAt>>

\* ByteMask::join_chunks on the chunks collected so far
JoinCall ==
    /\ pc = "iter"
    /\ joined' = JoinChunks(mask, emitted)
    /\ pc' = "joined"
    /\ UNCHANGED <<op, bitsIn, mask, emitted, exhausted, image, cover, secret, zeroes,
                   stegoFile, outFile, chunkBuf, result, failedAt>>

\* Encoder::new(image_path, secret_path, mask); io is the outcome of its I/O:
\* image::open, then File::open and metadata of the secret
EncoderNew(img, sec, io) ==
    /\ pc = "masked"
    /\ op' = "encode"
    /\ CASE io = "image_fail" ->
              /\ result' = FromImageError
              /\ failedAt' = "Encoder::new image::open"
              /\ pc' = "done"
              /\ UNCHANGED <<image, cover, secret, zeroes>>
         [] io = "secret_fail" ->
              /\ result' = FromIoError
              /\ failedAt' = "Encoder::new File::open"
              /\ pc' = "done"
              /\ UNCHANGED <<image, cover, secret, zeroes>>
         [] io = "ok" ->
              /\ image' = img
              /\ cover' = img
              /\ secret' = sec
              /\ IF TooLarge(Len(img), SecretSize(Len(sec), mask))
                 THEN /\ result' = SecretTooLarge
                      /\ failedAt' = "Encoder::new capacity"
                      /\ pc' = "done"
                      /\ zeroes' = zeroes
                 ELSE /\ result' = "Ok"
                      /\ failedAt' = "none"
                      /\ pc' = "encoder"
                      /\ zeroes' = Len(img) - SecretSize(Len(sec), mask)
    /\ UNCHANGED <<bitsIn, mask, emitted, exhausted, joined, stegoFile, outFile,
                   chunkBuf>>

\* Encoder::save(output); io is the outcome of its I/O: try_clone of the
\* secret handle, reading the secret's bytes (unwrap), and image.save
EncoderSave(io) ==
    /\ pc = "encoder"
    /\ CASE io = "clone_fail" ->
              /\ result' = FromIoError
              /\ failedAt' = "Encoder::save try_clone"
              /\ pc' = "done"
              /\ UNCHANGED <<image, stegoFile>>
         [] io = "read_fail" ->
              \* b.unwrap() on Err: the thread panics inside the loop, at the
              \* read of some secret byte k (a byte is read only when the
              \* image has room left behind the zeroes, so the secret is not
              \* empty); the image bytes before it are already rewritten
              /\ Len(secret) >= 1
              /\ \E k \in 0..(Len(secret) - 1) :
                    image' = EmbedUntilRead(mask, image, secret, zeroes, k)
              /\ result' = "panic"
              /\ failedAt' = "Encoder::save read"
              /\ pc' = "done"
              /\ stegoFile' = stegoFile
         [] io = "save_fail" ->
              /\ image' = EmbedAll(mask, image, ChunkStream(mask, secret, zeroes))
              /\ result' = FromImageError
              /\ failedAt' = "Encoder::save image.save"
              /\ pc' = "done"
              \* image.save failed before or after it created the file
              /\ stegoFile' \in {stegoFile, PartFile(<<>>)}
         [] io = "ok" ->
              /\ image' = EmbedAll(mask, image, ChunkStream(mask, secret, zeroes))
              /\ stegoFile' = Written(image')
              /\ result' = "Ok"
              /\ failedAt' = "none"
              /\ pc' = "encoded"
    /\ UNCHANGED <<op, bitsIn, mask, emitted, exhausted, joined, cover, secret,
                   zeroes, outFile, chunkBuf>>

\* Decoder::new(image_path, mask) on an image file img
DecoderOpen(img, io) ==
    /\ IF io = "image_fail"
       THEN /\ result' = FromImageError
            /\ failedAt' = "Decoder::new image::open"
            /\ pc' = "done"
            /\ image' = image
       ELSE /\ result' = "Ok"
            /\ failedAt' = "none"
            /\ pc' = "decoder"
            /\ image' = img
    /\ UNCHANGED <<bitsIn, mask, emitted, exhausted, joined, secret, zeroes,
                   stegoFile, outFile, chunkBuf>>

\* decode of an image that was not written by this run
DecoderNew(img, io) ==
    /\ pc = "masked"
    /\ op' = "decode"
    /\ cover' = img
    /\ DecoderOpen(img, io)

\* decode of the image Encoder::save wrote, with the same bit-width
DecoderNewStego(io) ==
    /\ pc = "encoded"
    /\ op' = "roundtrip"
    /\ cover' = cover
    /\ DecoderOpen(stegoFile.bytes, io)

\* Decoder::save(output); io is the outcome of its I/O: File::create, a
\* write_all inside the loop that finds the BufWriter's buffer full, and the
\* flush after the loop
DecoderSave(io) ==
    /\ pc = "decoder"
    /\ pc' = "done"
    /\ CASE io = "create_fail" ->
              /\ result' = FromIoError
              /\ failedAt' = "Decoder::save File::create"
              /\ UNCHANGED <<outFile, chunkBuf>>
         [] io = "write_fail" ->
              \* the w-th write_all has to empty the full buffer first and
              \* that write to the file fails after some of its bytes: the
              \* `?` returns from inside the loop, before chunks.clear().
              \* The file holds what earlier flushes wrote and k bytes of
              \* this one; the BufWriter's drop tries the rest once more, so
              \* k may reach the whole buffer
              LET full == DecodeAll(mask, image)
              IN  \E w \in {x \in 1..Len(full.out) : WriteFlushes(x)} :
                    LET st == DecodeUntilWrite(mask, image, 0, DecodeStart, w)
                    IN  /\ result' = FromIoError
                        /\ failedAt' = "Decoder::save write_all"
                        /\ chunkBuf' = st.chunks
                        /\ \E k \in Flushed(w - 1)..(w - 1) :
                              outFile' = PartFile(SubSeq(st.out, 1, k))
         [] io = "flush_fail" ->
              \* the flush writes the buffered bytes to the file File::create
              \* made and fails after some of them; the BufWriter's drop then
              \* tries the rest once more, so k may reach all of them.  With
              \* nothing decoded the buffer is empty and no write is made
              LET st == DecodeAll(mask, image)
              IN  /\ Len(st.out) > 0
                  /\ result' = FromIoError
                  /\ failedAt' = "Decoder::save flush"
                  /\ chunkBuf' = st.chunks
                  /\ \E k \in Flushed(Len(st.out))..Len(st.out) :
                        outFile' = PartFile(SubSeq(st.out, 1, k))
         [] io = "ok" ->
              LET st == DecodeAll(mask, image)
              IN  /\ result' = "Ok"
                  /\ failedAt' = "none"
                  /\ chunkBuf' = st.chunks
                  /\ outFile' = Written(st.out)
    /\ UNCHANGED <<op, bitsIn, mask, emitted, exhausted, joined, image, cover,
                   secret, zeroes, stegoFile>>

\* the inputs of each call are drawn where the call is enabled
Next ==
    \/ \E bits \in 0..MaxBitsInput : NewMask(bits)
    \/ (pc \in {"masked", "iter"}) /\ (\E b \in Byte : SetByteCall(b))
    \/ NextCall
    \/ JoinCall
    \/ (pc = "masked") /\ (\E img \in Covers, sec \in Secrets,
                              io \in {"ok", "image_fail", "secret_fail"} :
                                EncoderNew(img, sec, io))
    \/ \E io \in {"ok", "clone_fail", "read_fail", "save_fail"} : EncoderSave(io)
    \/ (pc = "masked") /\ (\E img \in Images, io \in {"ok", "image_fail"} :
                                DecoderNew(img, io))
    \/ \E io \in {"ok", "image_fail"} : DecoderNewStego(io)
    \/ \E io \in {"ok", "create_fail", "write_fail", "flush_fail"} : DecoderSave(io)

Spec == Init /\ [][Next]_vars

----------------------------------------------------------------------------
(* What the properties are stated with: arithmetic on byte values, written  *)
(* without the bit operations of the code.                                  *)

\* ceil(8 / bits): the least n with n * bits >= 8
ChunksPerByte(bits) == CHOOSE n \in 1..8 : (n * bits >= 8) /\ ((n - 1) * bits < 8)

\* the low `bits` bits of x, and the bits above them
LowBits(x, bits) == x % Pow2(bits)

HighBits(x, bits) == x \div Pow2(bits)

\* chunk s (1-based) of byte b: the group of `bits` bits below bit 8 - bits*(s-1),
\* or, when fewer than `bits` bits are left, the low bits that are left, unshifted
ExpectedChunk(bits, b, s) ==
    IF bits * s > 8
    THEN b % Pow2(8 - bits * (s - 1))
    ELSE (b \div Pow2(8 - bits * s)) % Pow2(bits)

ExpectedChunks(bits, b) ==
    [s \in 1..ChunksPerByte(bits) |-> ExpectedChunk(bits, b, s)]

IsPrefix(p, q) == (Len(p) <= Len(q)) /\ (p = SubSeq(q, 1, Len(p)))

\* a decode pass has gone through the whole loop of Decoder::save (a
\* write_all that fails leaves the loop early)
DecodeRan ==
    /\ pc = "done"
    /\ op \in {"decode", "roundtrip"}
    /\ failedAt \in {"none", "Decoder::save flush"}

\* Encoder::save has gone through its loop over the image
EmbedRan ==
    /\ op = "encode"
    /\ (pc = "encoded") \/ (failedAt = "Encoder::save image.save")

\* Encoder::save has left its loop by the panic of a failing secret read
ReadPanicked ==
    /\ op = "encode"
    /\ pc = "done"
    /\ failedAt = "Encoder::save read"

\* the image has the zero padding and the chunks of the first k secret bytes
\* in the low bits of its first bytes, and the cover's bytes behind them
PartlyEmbedded(k) ==
    LET n == ChunksPerByte(bitsIn)
        z == Len(cover) - Len(secret) * n
    IN  /\ Len(image) = Len(cover)
        /\ \A i \in 1..Len(cover) :
             image[i] =
                IF i <= z
                THEN cover[i] - LowBits(cover[i], bitsIn)
                ELSE IF i <= z + k * n
                THEN cover[i] - LowBits(cover[i], bitsIn)
                     + ExpectedChunk(bitsIn, secret[((i - z - 1) \div n) + 1],
                                     ((i - z - 1) % n) + 1)
                ELSE cover[i]

----------------------------------------------------------------------------
(* C1 *)

\* C1: round trip. When a secret S with S[1] # 0 was embedded by
\* Encoder::save (so it fits the image) and Decoder::save has decoded the
\* written image with the same bit-width, the decoded file holds exactly S.
C1_RoundTrip ==
    (/\ pc = "done"
     /\ op = "roundtrip"
     /\ result = "Ok"
     /\ Len(secret) >= 1
     /\ secret[1] # 0)
    => (outFile = Written(secret))

\* a round trip of a two-byte secret whose first byte starts with zero chunks,
\* behind a padding that is no multiple of the chunks per byte
C1_Witness ==
    /\ pc = "done"
    /\ op = "roundtrip"
    /\ result = "Ok"
    /\ Len(secret) = 2
    /\ secret[1] = 1
    /\ zeroes % mask.chunks # 0
    /\ mask.padded
    /\ outFile = Written(secret)

----------------------------------------------------------------------------
(* C2 *)

\* C2: inverse law. When the iterator armed with set_byte(b) has been run to
\* its end and join_chunks is given all the chunks it yielded, in order, the
\* result is b.
C2_InverseLaw ==
    ((pc = "joined") /\ exhausted) => (joined = mask.byte)

\* the byte 0xFF taken apart and put together at a padded width
C2_Witness ==
    /\ pc = "joined"
    /\ exhausted
    /\ mask.padded
    /\ mask.byte = 255
    /\ Len(emitted) = mask.chunks
    /\ joined = 255

----------------------------------------------------------------------------
(* C3 *)

\* C3: capacity boundary. When Encoder::new has read the image and the
\* secret's length, it fails with SecretTooLarge exactly when
\* |secret| * chunks_per_byte > |image|; otherwise (equality included) it
\* succeeds and zeroes = |image| - |secret| * chunks_per_byte.
C3_CapacityBoundary ==
    (/\ op = "encode"
     /\ failedAt \notin {"Encoder::new image::open", "Encoder::new File::open"})
    => LET need == Len(secret) * ChunksPerByte(bitsIn)
       IN  /\ (failedAt = "Encoder::new capacity") <=> (need > Len(cover))
           /\ (failedAt = "Encoder::new capacity")
                 => ((result = SecretTooLarge) /\ (pc = "done"))
           /\ (need <= Len(cover)) => (zeroes = Len(cover) - need)

\* a secret that fills the image exactly: construction succeeds, no padding
C3_Witness ==
    /\ op = "encode"
    /\ pc = "encoder"
    /\ result = "Ok"
    /\ Len(secret) > 0
    /\ Len(secret) * ChunksPerByte(bitsIn) = Len(cover)
    /\ zeroes = 0

----------------------------------------------------------------------------
(* C4 *)

\* C4: bit-width boundary. ByteMask::new(bits) returns InvalidNumberOfBits
\* exactly when bits is outside 1..8, and otherwise a ByteMask of that width
\* with mask 2^bits - 1 and ceil(8/bits) chunks.
C4_BitWidthBoundary ==
    (pc # "start")
    => /\ (failedAt = "ByteMask::new") <=> (bitsIn \notin 1..8)
       /\ (failedAt = "ByteMask::new")
             => ((result = InvalidNumberOfBits) /\ (mask = NoMask))
       /\ (bitsIn \in 1..8)
             => /\ mask.bits = bitsIn
                /\ mask.mask = Pow2(bitsIn) - 1
                /\ mask.chunks = ChunksPerByte(bitsIn)
                /\ mask.padded <=> (bitsIn \in {3, 5, 6, 7})

\* ByteMask::new(9) has returned the error
C4_Witness ==
    /\ pc = "done"
    /\ bitsIn = 9
    /\ result = InvalidNumberOfBits

----------------------------------------------------------------------------
(* C5 *)

\* C5: high bits are kept. After the loop of Encoder::save, whether it ran to
\* its end or was left by the panic of a failing secret read, every image
\* byte has the bits above the low `bits` bits of the cover byte at its index,
\* the image has the cover's length, and every chunk written is <= mask.
C5_HighBitsKept ==
    (EmbedRan \/ ReadPanicked)
    => /\ Len(image) = Len(cover)
       /\ \A i \in 1..Len(cover) :
            HighBits(image[i], bitsIn) = HighBits(cover[i], bitsIn)
       /\ LET stream == ChunkStream(mask, secret, zeroes)
          IN  \A i \in 1..Len(stream) : stream[i] <= Pow2(bitsIn) - 1
       /\ (pc = "encoded") => (stegoFile = Written(image))

\* an image with high bits set whose low bits were changed by a secret
C5_Witness ==
    /\ EmbedRan
    /\ pc = "encoded"
    /\ bitsIn \in 2..7
    /\ Len(secret) > 0
    /\ image # cover
    /\ \E i \in 1..Len(cover) : HighBits(cover[i], bitsIn) # 0

----------------------------------------------------------------------------
(* C6 *)

\* C6: padding layout. After Encoder::save on an image of L bytes with secret
\* S and n chunks per byte: the low bits of the first L - |S|*n bytes are
\* zero, and the low bits of byte L - |S|*n + k*n + j hold chunk j of S[k],
\* so the secret ends at the last byte of the image.
C6_PaddingLayout ==
    EmbedRan
    => LET n == ChunksPerByte(bitsIn)
           L == Len(cover)
           z == L - Len(secret) * n
       IN  /\ Len(image) = L
           /\ z >= 0
           /\ \A i \in 1..z : LowBits(image[i], bitsIn) = 0
           /\ \A k \in 1..Len(secret) : \A j \in 1..n :
                LowBits(image[z + (k - 1) * n + j], bitsIn)
                    = ExpectedChunk(bitsIn, secret[k], j)

\* bits = 8: the image is the zero padding followed by the secret itself
C6_Witness ==
    /\ EmbedRan
    /\ pc = "encoded"
    /\ bitsIn = 8
    /\ Len(secret) = 2
    /\ secret[1] # 0
    /\ zeroes > 0
    /\ image = Zeros(zeroes) \o secret

----------------------------------------------------------------------------
(* C7 *)

\* the steps of a pass that come before anything is written
StepsBeforeOutput ==
    {"ByteMask::new", "Encoder::new image::open", "Encoder::new File::open",
     "Encoder::new capacity", "Encoder::save try_clone", "Encoder::save read",
     "Decoder::new image::open", "Decoder::save File::create"}

\* C7 as stated: whenever an encode or decode pass has ended in an error, at
\* any step, the pass has written no output: its output file does not exist.
\* (Stated for the steps whose writes are in the source; what a failing
\* image.save leaves behind is decided by the image library.)
C7_NoPartialOutput ==
    ((pc = "done") /\ (result # "Ok") /\ (failedAt # "Encoder::save image.save"))
    => /\ (op \in {"none", "encode"}) => (stegoFile = Absent)
       /\ outFile = Absent

\* C7, amended: a pass that ends in an error at a step before its output is
\* opened (ByteMask::new, Encoder::new with its capacity test, Decoder::new,
\* try_clone and the secret read of Encoder::save, File::create of
\* Decoder::save) leaves no output, and a secret that does not fit is never
\* written; an error of the flush of Decoder::save, or of a write_all that
\* had to empty the full buffer, leaves the created file with a prefix of
\* the decoded bytes, and an error of image.save may leave a created file.
C7_NoOutputBeforeWrite ==
    /\ ((pc = "done") /\ (result # "Ok") /\ (failedAt \in StepsBeforeOutput))
       => /\ (op \in {"none", "encode"}) => (stegoFile = Absent)
          /\ outFile = Absent
    /\ ((op \in {"encode", "roundtrip"})
          /\ (Len(secret) * ChunksPerByte(bitsIn) > Len(cover)))
       => (stegoFile = Absent)
    /\ (failedAt \in {"Decoder::save flush", "Decoder::save write_all"})
       => /\ outFile.state = "partial"
          /\ IsPrefix(outFile.bytes, DecodeAll(mask, image).out)
    /\ (failedAt = "Decoder::save write_all")
       => /\ Len(DecodeAll(mask, image).out) > BufCapacity
          /\ Len(outFile.bytes) < Len(DecodeAll(mask, image).out)
    /\ (failedAt = "Encoder::save image.save")
       => /\ stegoFile.state \in {"absent", "partial"}
          /\ outFile = Absent

\* Decoder::save has returned an error and its output file holds a byte
C7_Witness ==
    /\ pc = "done"
    /\ failedAt = "Decoder::save flush"
    /\ result = SecretReadError
    /\ outFile.state = "partial"
    /\ Len(outFile.bytes) >= 1

----------------------------------------------------------------------------
(* C8 *)

\* C8: once Encoder::new has succeeded, a step of Encoder::save before the
\* final image write does not abort the pass: when save fails at the read of
\* a secret byte or at the image write, it fails at the image write, with
\* ImageReadWriteError returned to the caller.  (The try_clone step is left
\* out: it returns SecretReadError, the error kind the specification's error
\* section gives to a failure of the secret source, so the pass is not
\* aborted there.  The same section has a failing read of the secret
\* returned as SecretReadError; the code unwraps it and panics.)
C8_OnlyImageWriteFails ==
    ((op = "encode") /\ (pc = "done")
        /\ (failedAt \in {"Encoder::save read", "Encoder::save image.save"}))
    => /\ failedAt = "Encoder::save image.save"
       /\ result = ImageReadWriteError

\* the read of the second secret byte has failed in Encoder::save: the pass
\* was left by a panic, with no error value and no file, and the image in
\* memory rewritten up to the chunks of the first byte
C8_Witness ==
    /\ ReadPanicked
    /\ result = "panic"
    /\ stegoFile = Absent
    /\ Len(secret) = 2
    /\ PartlyEmbedded(1)
    /\ image # cover

----------------------------------------------------------------------------
(* C9 *)

\* C9: silent decode. When Decoder::save has created its output and the low
\* `bits` bits of every image byte are zero (the empty image included), it
\* returns Ok and the output file is empty: no error comes of it.
C9_SilentDecode ==
    (/\ pc = "done"
     /\ op \in {"decode", "roundtrip"}
     /\ failedAt \notin {"Decoder::new image::open", "Decoder::save File::create"}
     /\ \A i \in 1..Len(image) : LowBits(image[i], bitsIn) = 0)
    => /\ result = "Ok"
       /\ outFile = Written(<<>>)
       /\ chunkBuf = <<>>

\* an image that is not all zero, but is in its low bits, decoded to nothing
C9_Witness ==
    /\ pc = "done"
    /\ op = "decode"
    /\ result = "Ok"
    /\ Len(image) > 0
    /\ \E i \in 1..Len(image) : image[i] # 0
    /\ \A i \in 1..Len(image) : LowBits(image[i], bitsIn) = 0
    /\ outFile = Written(<<>>)

----------------------------------------------------------------------------
(* C10 *)

\* C10: decompose content. After set_byte(b) the iterator yields ceil(8/bits)
\* chunks and then None; chunk s is the s-th group of `bits` bits of b from
\* the most significant end, and the last chunk of a padded width is the low
\* 8 - bits*(chunks-1) bits of b, unshifted.
C10_DecomposeContent ==
    (pc \in {"iter", "joined"})
    => LET n == ChunksPerByte(bitsIn)
       IN  /\ Len(emitted) <= n
           /\ exhausted => (Len(emitted) = n)
           /\ (Len(emitted) < n) => IterNext(mask).item.some
           /\ (Len(emitted) = n) => ~IterNext(mask).item.some
           /\ \A s \in 1..Len(emitted) :
                emitted[s] = ExpectedChunk(bitsIn, mask.byte, s)
           /\ (exhausted /\ (bitsIn = 2) /\ (mask.byte = 65))
                => (emitted = <<1, 0, 0, 1>>)
           /\ (exhausted /\ (bitsIn = 3) /\ (mask.byte = 255))
                => (emitted = <<7, 7, 3>>)

\* 0xFF taken apart at bits = 3, to the end of the iteration
C10_Witness ==
    /\ pc = "iter"
    /\ exhausted
    /\ bitsIn = 3
    /\ mask.byte = 255
    /\ emitted = <<7, 7, 3>>

----------------------------------------------------------------------------
(* C11 *)

\* the image has a byte whose low bits are not zero
HasChunk == \E i \in 1..Len(image) : LowBits(image[i], bitsIn) # 0

\* 0-based index of the first image byte whose low bits are not zero
FirstChunk ==
    (CHOOSE i \in 1..Len(image) :
        /\ LowBits(image[i], bitsIn) # 0
        /\ \A j \in 1..(i - 1) : LowBits(image[j], bitsIn) = 0) - 1

\* the chunk values at the n image positions that end n*k before the end of
\* the image, those before the image's first byte taken as zero
TailGroup(k) ==
    LET n == ChunksPerByte(bitsIn)
    IN  [j \in 1..n |->
            LET pos == Len(image) - n * (k + 1) + (j - 1)
            IN  IF pos < 0 THEN 0 ELSE LowBits(image[pos + 1], bitsIn)]

\* C11: end-anchored alignment. For any image of length L whose first nonzero
\* chunk is at index i, Decoder::save emits ceil((L - i)/n) bytes, the k-th
\* from the end being join_chunks of the n chunk values that end n*k before
\* the end of the image, and its chunk buffer is empty when the pass ends.
C11_EndAnchored ==
    (DecodeRan /\ HasChunk)
    => LET n == ChunksPerByte(bitsIn)
           count == (Len(image) - FirstChunk + n - 1) \div n
       IN  /\ chunkBuf = <<>>
           /\ (result = "Ok")
                => /\ outFile.state = "written"
                   /\ Len(outFile.bytes) = count
                   /\ \A k \in 0..(count - 1) :
                        outFile.bytes[count - k] = JoinChunks(mask, TailGroup(k))

\* an image that no encoder wrote, its first nonzero chunk in the middle of
\* a group, decoded to two bytes or more
C11_Witness ==
    /\ DecodeRan
    /\ op = "decode"
    /\ result = "Ok"
    /\ HasChunk
    /\ FirstChunk > 0
    /\ (Len(image) - FirstChunk) % ChunksPerByte(bitsIn) # 0
    /\ Len(outFile.bytes) >= 2
    /\ \E i \in 1..Len(image) : (i > FirstChunk + 1) /\ (image[i] = 0)

----------------------------------------------------------------------------
(* C12 *)

\* s without its leading zero bytes
RECURSIVE StripZeros(_)
StripZeros(s) ==
    IF (Len(s) > 0) /\ (s[1] = 0) THEN StripZeros(Tail(s)) ELSE s

\* C12: leading-zero loss. Decoding the image Encoder::save wrote, with the
\* same bit-width, yields the secret without its leading 0x00 bytes, whatever
\* the secret: a first nonzero byte is recovered whole even when its leading
\* chunks are zero, and an empty or all-zero secret decodes to nothing.
C12_LeadingZeroLoss ==
    ((pc = "done") /\ (op = "roundtrip") /\ (result = "Ok"))
    => (outFile = Written(StripZeros(secret)))

\* a secret 0x00 0x01 decoded to the single byte 0x01 at a width where the
\* byte 0x01 starts with zero chunks
C12_Witness ==
    /\ pc = "done"
    /\ op = "roundtrip"
    /\ result = "Ok"
    /\ bitsIn <= 4
    /\ secret = <<0, 1>>
    /\ zeroes > 0
    /\ outFile = Written(<<1>>)

----------------------------------------------------------------------------
(* C13 *)

\* C13: no 8-bit arithmetic fault. For every ByteMask that ByteMask::new
\* builds and every step the iterator takes, chunks * bits, bits * step - 8
\* (last step of a padded width) and 8 - bits * step (every other step) have
\* their exact value within 0..255, and every shift amount of next and of
\* join_chunks (for any number of chunks) is within 0..7.
C13_NoArithmeticFault ==
    (mask # NoMask)
    => /\ mask.chunks * mask.bits \in 0..255
       /\ Mul8(mask.chunks, mask.bits) = mask.chunks * mask.bits
       /\ mask.step <= mask.chunks
       /\ (mask.step >= 1)
            => IF mask.padded /\ (mask.step = mask.chunks)
               THEN /\ mask.bits * mask.step - 8 \in 0..7
                    /\ PaddedShift(mask, mask.step) = mask.bits * mask.step - 8
               ELSE /\ 8 - mask.bits * mask.step \in 0..7
                    /\ PlainShift(mask, mask.step) = 8 - mask.bits * mask.step
       /\ \A k \in 1..MaxJoinChunks : JoinShiftAt(mask, k) \in 0..7

\* the last step of a padded width has been taken and its chunks joined
C13_Witness ==
    /\ pc = "joined"
    /\ mask.padded
    /\ mask.step = mask.chunks
    /\ mask.bits = 7
    /\ mask.byte = 255
    /\ PaddedShift(mask, mask.step) = 6
    /\ JoinShiftAt(mask, 2) = 0

====
